---- MODULE Spec2Model ----
(***************************************************************************)
(* A model of the qWp HUD backend (src/backend): the adapter connection    *)
(* manager (obd_connection.py), the acquisition and normalisation cycle    *)
(* (obd_data.py) and the per-client publisher loop (websocket_server.py).  *)
(*                                                                         *)
(* Eleven specifications share the variables:                                *)
(*   Spec       two clients streaming concurrently, a short gather list    *)
(*   SpecCycle  one client, the representative catalog                     *)
(*   SpecStatus one client, every modelled answer to STATUS and GET_DTC    *)
(*   SpecConn   sequences of initialize_obd_connection / close_connection  *)
(*   SpecStartup  the connect of __main__, then one client streaming       *)
(*   SpecInbound  one client streaming while it sends messages             *)
(*   SpecFresh    one client over many cycles, what it was sent recorded   *)
(*   SpecYear     one client, VIN and STATUS, every year character         *)
(*   SpecMain     the streaming loop of main.py, one client                *)
(*   SpecFair     SpecStatus under fair scheduling of tasks and threads    *)
(*   SpecLost     one client, close_connection() called while it streams   *)
(*                                                                         *)
(* The adapter (python-OBD) is external.  Every call to it may raise; the  *)
(* status of a link is the adapter's to change at any time, so each read   *)
(* of is_connected() or protocol_id() may return either answer; and the    *)
(* link is one sequential channel: a query writes its request and reads a  *)
(* response from it.                                                       *)
(*                                                                         *)
(* Values: Python objects are records [kind, n, s, t, u]; numbers are held *)
(* in thousandths (n), strings in s, tuples and lists as sequences of      *)
(* values (t), u is the unit of a pint quantity.                           *)
(***************************************************************************)
EXTENDS Integers, Sequences, FiniteSets, TLC

\* ---------------------------------------------------------------- bounds
NumClients == 2
PoolSize == 2
MaxLinks == 3
MaxRetriesArg == 2
MaxInbound == 2

\* ------------------------------------------------------- program constants
\* max_retries of initialize_obd_connection when the caller passes none
DefaultMaxRetries == 3
DegradedInterval == 2000
PollingInterval == 500
SpeedFactorMicro == 621371
VinLength == 17

\* ---------------------------------------------------------------- values
NoneV == [kind |-> "none", n |-> 0, s |-> "", t |-> <<>>, u |-> ""]
Num(x) == [kind |-> "num", n |-> x, s |-> "", t |-> <<>>, u |-> ""]
BoolV(b) == [kind |-> "bool", n |-> IF b THEN 1 ELSE 0, s |-> "", t |-> <<>>, u |-> ""]
Str(x) == [kind |-> "str", n |-> 0, s |-> x, t |-> <<>>, u |-> ""]
Tup(items) == [kind |-> "tuple", n |-> 0, s |-> "", t |-> items, u |-> ""]
List(items) == [kind |-> "list", n |-> 0, s |-> "", t |-> items, u |-> ""]
Quantity(mag, units) == [kind |-> "quantity", n |-> mag, s |-> "", t |-> <<>>, u |-> units]

IsNone(v) == v.kind = "none"

\* round(x, 2) on a number held in thousandths: nearest hundredth, ties to even
Round2(x) ==
  LET q == x \div 10
      r == x % 10
  IN  IF r < 5 THEN 10 * q
      ELSE IF r > 5 THEN 10 * (q + 1)
      ELSE IF q % 2 = 0 THEN 10 * q ELSE 10 * (q + 1)

\* a conversion that cuts the product off after 2 decimals
SpeedToMph_Truncates(v) ==
  LET a == v \div 1000
      b == v % 1000
      fracMicro == a * (SpeedFactorMicro % 1000) * 1000 + b * SpeedFactorMicro
      thouFloor == a * (SpeedFactorMicro \div 1000) + fracMicro \div 1000000
  IN  10 * (thouFloor \div 10)

\* round(v * 0.621371, 2) for v >= 0 in thousandths; the product is split so
\* that it stays inside 32-bit integers
SpeedToMph(v) ==
  LET a == v \div 1000
      b == v % 1000
      fracMicro == a * (SpeedFactorMicro % 1000) * 1000 + b * SpeedFactorMicro
      wholeThou == a * (SpeedFactorMicro \div 1000)
      \* value in thousandths = wholeThou + fracMicro / 10^6
      thouFloor == wholeThou + fracMicro \div 1000000
      rest == fracMicro % 1000000
      q == thouFloor \div 10
      \* remainder below one hundredth, in units of 10^-9
      low == (thouFloor % 10) * 1000000 + rest
  IN  IF low < 5000000 THEN 10 * q
      ELSE IF low > 5000000 THEN 10 * (q + 1)
      ELSE IF q % 2 = 0 THEN 10 * q ELSE 10 * (q + 1)

\* bool(x)
Truthy(v) ==
  CASE v.kind = "none" -> FALSE
    [] v.kind \in {"bool", "num", "quantity"} -> v.n # 0
    [] v.kind = "str" -> Len(v.s) > 0
    [] OTHER -> Len(v.t) > 0

\* int(x) raises for None, tuples, lists, quantities and non-numeric strings
IntRaises(v) == v.kind \notin {"bool", "num"}

\* int(x): truncation toward zero, kept in thousandths
IntOf(v) ==
  IF v.kind = "bool" THEN 1000 * v.n
  ELSE IF v.n >= 0 THEN 1000 * (v.n \div 1000) ELSE 0 - 1000 * ((0 - v.n) \div 1000)

\* float(x) raises for everything that is not a number (the modelled strings
\* are not numerals)
FloatRaises(v) == v.kind \notin {"bool", "num"}

FloatOf(v) == IF v.kind = "bool" THEN 1000 * v.n ELSE v.n

\* str(x): a string stays itself; other objects print as their repr, which is
\* modelled per kind (never 17 characters long)
ToStr(v) ==
  CASE v.kind = "str" -> v
    [] v.kind = "none" -> Str("None")
    [] v.kind = "bool" -> IF v.n = 1 THEN Str("True") ELSE Str("False")
    [] v.kind = "tuple" -> Str("(...)")
    [] v.kind = "list" -> Str("[...]")
    [] OTHER -> Str("<number>")

\* str.startswith
StartsWith(str, prefix) ==
  Len(prefix) <= Len(str) /\ SubSeq(str, 1, Len(prefix)) = prefix

\* ------------------------------------------------------------ decode_vin
\* MANUFACTURER_CODES, a representative subsequence in the dict's order
MANUFACTURER_CODES ==
  << <<"1G", "General Motors (US)">>, <<"1G1", "Chevrolet">>,
     <<"1GC", "Chevrolet Truck">>, <<"1H", "Honda (US)">>,
     <<"1HD", "Harley-Davidson">>, <<"JT", "Toyota (Japan)">>,
     <<"SAL", "Land Rover">>, <<"TM", "Mitsubishi (Japan)">>,
     <<"TMB", "Skoda">>, <<"WBA", "BMW">>, <<"ZFF", "Ferrari">> >>

\* the dict literal of year_map, in the order it is written
year_map_items ==
  << <<"A", 1980>>, <<"B", 1981>>, <<"C", 1982>>, <<"D", 1983>>, <<"E", 1984>>,
     <<"F", 1985>>, <<"G", 1986>>, <<"H", 1987>>, <<"J", 1988>>, <<"K", 1989>>,
     <<"L", 1990>>, <<"M", 1991>>, <<"N", 1992>>, <<"P", 1993>>, <<"R", 1994>>,
     <<"S", 1995>>, <<"T", 1996>>, <<"V", 1997>>, <<"W", 1998>>, <<"X", 1999>>,
     <<"Y", 2000>>, <<"1", 2001>>, <<"2", 2002>>, <<"3", 2003>>, <<"4", 2004>>,
     <<"5", 2005>>, <<"6", 2006>>, <<"7", 2007>>, <<"8", 2008>>, <<"9", 2009>>,
     <<"A", 2010>>, <<"B", 2011>>, <<"C", 2012>>, <<"D", 2013>>, <<"E", 2014>>,
     <<"F", 2015>>, <<"G", 2016>>, <<"H", 2017>>, <<"J", 2018>>, <<"K", 2019>>,
     <<"L", 2020>>, <<"M", 2021>>, <<"N", 2022>>, <<"P", 2023>>, <<"R", 2024>> >>

country_codes ==
  << <<"1", "United States">>, <<"2", "Canada">>, <<"3", "Mexico">>,
     <<"4", "United States">>, <<"5", "United States">>, <<"J", "Japan">>,
     <<"K", "Korea">>, <<"L", "China">>, <<"S", "United Kingdom">>,
     <<"T", "Switzerland/Japan">>, <<"V", "France/Spain">>, <<"W", "Germany">>,
     <<"X", "Russia/USSR">>, <<"Y", "Belgium/Finland/Sweden">>, <<"Z", "Italy">> >>

\* a dict built from a literal: the last item written for a key is its value
DictHas(items, key) == \E i \in 1..Len(items) : items[i][1] = key

\* a dict in which the first item written for a key stays
DictGet_FirstWins(items, key) ==
  LET first == CHOOSE i \in 1..Len(items) :
                 /\ items[i][1] = key
                 /\ \A j \in 1..(i - 1) : items[j][1] # key
  IN  items[first][2]

DictGet(items, key) ==
  LET last == CHOOSE i \in 1..Len(items) :
                /\ items[i][1] = key
                /\ \A j \in (i + 1)..Len(items) : items[j][1] # key
  IN  items[last][2]

\* for code, manufacturer in MANUFACTURER_CODES.items(): first startswith hit
FirstPrefixMake(vin) ==
  LET hits == {i \in 1..Len(MANUFACTURER_CODES) : StartsWith(vin, MANUFACTURER_CODES[i][1])}
  IN  IF hits = {} THEN NoneV
      ELSE Str(MANUFACTURER_CODES[CHOOSE i \in hits : \A j \in hits : i <= j][2])

decode_vin(vin) ==
  IF vin = "" \/ Len(vin) # VinLength
  THEN [make |-> NoneV, model_year |-> NoneV, country |-> NoneV, raw_vin |-> vin]
  ELSE
    LET wmi == SubSeq(vin, 1, 3)
        first == FirstPrefixMake(vin)
        make == IF IsNone(first) /\ DictHas(MANUFACTURER_CODES, SubSeq(wmi, 1, 2))
                THEN Str(DictGet(MANUFACTURER_CODES, SubSeq(wmi, 1, 2)))
                ELSE first
        year_char == SubSeq(vin, 10, 10)
        first_char == SubSeq(vin, 1, 1)
    IN  [make |-> make,
         model_year |-> IF DictHas(year_map_items, year_char)
                        THEN Num(1000 * DictGet(year_map_items, year_char)) ELSE NoneV,
         country |-> IF DictHas(country_codes, first_char)
                     THEN Str(DictGet(country_codes, first_char)) ELSE NoneV,
         raw_vin |-> vin]

\* ------------------------------------------------------------- catalog
\* desired_command_names_for_gather: one representative of each class of
\* command, in the list's order (generic numeric, SPEED, string-valued, the
\* two inputs of boost_pressure, VIN, STATUS)
GatherAll ==
  <<"RPM", "SPEED", "FUEL_TYPE", "INTAKE_PRESSURE", "BAROMETRIC_PRESSURE", "VIN", "STATUS">>

\* hasattr(obd.commands, name): the adapter library knows every modelled name
LibraryCommands ==
  {"RPM", "SPEED", "FUEL_TYPE", "INTAKE_PRESSURE", "BAROMETRIC_PRESSURE", "VIN",
   "STATUS", "GET_DTC"}

StringCommands == {"FUEL_TYPE", "VIN", "ECU_NAME", "FUEL_STATUS", "OBD_COMPLIANCE"}

output_key_map ==
  [RPM |-> "rpm", SPEED |-> "speed", FUEL_TYPE |-> "fuel_type",
   INTAKE_PRESSURE |-> "manifold_pressure", BAROMETRIC_PRESSURE |-> "baro_pressure",
   VIN |-> "vin"]

\* the keys of data_to_send that hold a telemetry value, their unit companions
ValueKeys ==
  {"rpm", "speed", "fuel_type", "manifold_pressure", "baro_pressure", "boost_pressure",
   "vin", "vehicle_make", "vehicle_year", "vehicle_country"}

UnitKeys ==
  {"rpm_unit", "speed_unit", "manifold_pressure_unit", "baro_pressure_unit",
   "boost_pressure_unit"}

\* a data_to_send that starts from a speed read earlier
DefaultData_StaleSpeed ==
  [rpm |-> NoneV, rpm_unit |-> "rpm",
   speed |-> Num(62140), speed_unit |-> "mph",
   mil_on |-> FALSE, dtc_count |-> 0, dtcs |-> <<>>,
   fuel_type |-> NoneV,
   manifold_pressure |-> NoneV, manifold_pressure_unit |-> "kPa",
   baro_pressure |-> NoneV, baro_pressure_unit |-> "kPa",
   boost_pressure |-> NoneV, boost_pressure_unit |-> "kPa",
   vin |-> NoneV,
   vehicle_make |-> NoneV, vehicle_year |-> NoneV, vehicle_country |-> NoneV,
   status |-> "OK"]

\* data_to_send as query_obd_data first builds it
DefaultData ==
  [rpm |-> NoneV, rpm_unit |-> "rpm",
   speed |-> NoneV, speed_unit |-> "mph",
   mil_on |-> FALSE, dtc_count |-> 0, dtcs |-> <<>>,
   fuel_type |-> NoneV,
   manifold_pressure |-> NoneV, manifold_pressure_unit |-> "kPa",
   baro_pressure |-> NoneV, baro_pressure_unit |-> "kPa",
   boost_pressure |-> NoneV, boost_pressure_unit |-> "kPa",
   vin |-> NoneV,
   vehicle_make |-> NoneV, vehicle_year |-> NoneV, vehicle_country |-> NoneV,
   status |-> "OK"]

\* the local data_to_send of a publisher that is not inside a cycle
NoData == [status |-> "NONE"]

\* d[k] = v on a dict: an existing key is overwritten, a new one is added
SetKey(d, k, v) == IF k \in DOMAIN d THEN [d EXCEPT ![k] = v] ELSE d @@ (k :> v)

\* ----------------------------------------------------- adapter responses
NullResponse == [isnull |-> TRUE, value |-> NoneV, unit |-> ""]
Response(v, unit) == [isnull |-> FALSE, value |-> v, unit |-> unit]

StatusMilOn2 == Tup(<<BoolV(TRUE), Num(2000), Str("spark")>>)
StatusMilOff2 == Tup(<<BoolV(FALSE), Num(2000), Str("spark")>>)
StatusMilOn0 == Tup(<<BoolV(TRUE), Num(0), Str("spark")>>)
StatusShort == Tup(<<BoolV(TRUE)>>)
StatusNotTuple == Str("status")
StatusBadCount == Tup(<<BoolV(TRUE), Str("two"), Str("spark")>>)

DtcPairs ==
  List(<<Tup(<<Str("P0100"), Str("Mass Air Flow")>>), Tup(<<Str("P0200")>>),
         Tup(<<Str("P0300"), Str("Misfire")>>)>>)

VinChevrolet == "1G1ZT53826F109149"
VinShort == "1G1ZT5382"

\* what the adapter may answer to a request for a command
AdapterValues(name) ==
  CASE name = "RPM" -> {NullResponse, Response(Quantity(3000456, "revolutions_per_minute"), "rpm")}
    [] name = "SPEED" -> {NullResponse, Response(Quantity(100000, "kph"), "kph")}
    [] name = "FUEL_TYPE" -> {NullResponse, Response(Str("Gasoline"), "")}
    [] name = "INTAKE_PRESSURE" -> {NullResponse, Response(Quantity(120000, "kilopascal"), "kPa")}
    [] name = "BAROMETRIC_PRESSURE" -> {NullResponse, Response(Quantity(100000, "kilopascal"), "kPa")}
    [] name = "VIN" -> {NullResponse, Response(Str(VinChevrolet), ""), Response(Str(VinShort), "")}
    [] name = "STATUS" -> {NullResponse, Response(StatusMilOn2, ""), Response(StatusMilOff2, ""),
                           Response(StatusMilOn0, ""), Response(StatusShort, ""),
                           Response(StatusNotTuple, ""), Response(StatusBadCount, "")}
    [] name = "GET_DTC" -> {NullResponse, Response(DtcPairs, ""), Response(Num(7000), "")}
    [] OTHER -> {NullResponse}

\* ---------------------------------------- _process_individual_obd_response
ProcessResponse(response, name) ==
  IF response.isnull THEN [val |-> NoneV, unit |-> ""]
  ELSE
    LET val == response.value
        hasMagnitude == val.kind = "quantity"
        processed0 == IF hasMagnitude THEN Num(Round2(val.n)) ELSE val
        unit0 == IF hasMagnitude THEN val.u ELSE response.unit
        \* the closing round(processed_val, 2) of a float that came without magnitude
        Rounded(v) == IF v.kind = "num" /\ ~hasMagnitude THEN Num(Round2(v.n)) ELSE v
    IN  CASE name = "SPEED" ->
               IF processed0.kind \in {"num", "bool"}
               THEN [val |-> Rounded(Num(SpeedToMph(FloatOf(processed0)))), unit |-> "mph"]
               ELSE [val |-> processed0, unit |-> unit0]
          [] name \in StringCommands -> [val |-> ToStr(val), unit |-> ""]
          [] name \in {"STATUS", "GET_DTC"} -> [val |-> Rounded(val), unit |-> ""]
          [] OTHER -> [val |-> Rounded(processed0), unit |-> unit0]

\* ------------------------------------------------------ query_obd_command
\* the tuple (name, value, unit, is_error); src is the request whose response
\* the call read from the link (auxiliary: not part of the program's tuple)
NoRequest == <<0, "">>
PendingResult ==
  [done |-> FALSE, name |-> "", val |-> NoneV, unit |-> "", err |-> FALSE, src |-> NoRequest]
FailedResult(name) ==
  [done |-> TRUE, name |-> name, val |-> NoneV, unit |-> "", err |-> TRUE, src |-> NoRequest]

QueryResult(name, response, src) ==
  IF response.isnull THEN FailedResult(name)
  ELSE LET p == ProcessResponse(response, name)
       IN  [done |-> TRUE, name |-> name, val |-> p.val, unit |-> p.unit,
            err |-> IsNone(p.val) /\ name \notin (StringCommands \cup {"STATUS", "GET_DTC"}),
            src |-> src]

\* ------------------------------------- query_obd_data: the results loop
\* len(x) == 17 and its TypeError on a number
LenRaises(v) == v.kind \in {"num", "bool", "quantity"}
LenOf(v) == IF v.kind = "str" THEN Len(v.s) ELSE Len(v.t)

\* the STATUS result: mil_on and dtc_count from a tuple of two or more
ApplyStatus(d, r) ==
  IF r.val.kind = "tuple" /\ Len(r.val.t) >= 2
  THEN LET d1 == [d EXCEPT !.mil_on = Truthy(r.val.t[1])]
       IN  IF IntRaises(r.val.t[2]) THEN [data |-> d1, raised |-> TRUE]
           ELSE [data |-> [d1 EXCEPT !.dtc_count = IntOf(r.val.t[2]) \div 1000],
                 raised |-> FALSE]
  ELSE [data |-> [d EXCEPT !.mil_on = FALSE, !.dtc_count = 0], raised |-> FALSE]

\* a VIN branch that records vin only when the value is decoded
ApplyVin_KeepsVinOnlyIfDecoded(d, r) ==
  IF Truthy(r.val) /\ ~LenRaises(r.val) /\ LenOf(r.val) = VinLength
  THEN LET info == decode_vin(r.val.s)
       IN  [data |-> [d EXCEPT !.vin = r.val,
                               !.vehicle_make = info.make,
                               !.vehicle_year = info.model_year,
                               !.vehicle_country = info.country],
            raised |-> FALSE]
  ELSE [data |-> d, raised |-> FALSE]

\* the VIN result: vin, and the decoded fields of a 17-character value
ApplyVin(d, r) ==
  LET d1 == [d EXCEPT !.vin = r.val]
  IN  IF ~Truthy(r.val) THEN [data |-> d1, raised |-> FALSE]
      ELSE IF LenRaises(r.val) THEN [data |-> d1, raised |-> TRUE]
      ELSE IF LenOf(r.val) = VinLength
      THEN LET info == decode_vin(r.val.s)
           IN  [data |-> [d1 EXCEPT !.vehicle_make = info.make,
                                    !.vehicle_year = info.model_year,
                                    !.vehicle_country = info.country],
                raised |-> FALSE]
      ELSE [data |-> d1, raised |-> FALSE]

\* a results loop that a failed query aborts (what the isolation rules out)
ApplyGeneric_AbortsOnError(d, r) ==
  IF r.err THEN [data |-> d, raised |-> TRUE]
  ELSE IF r.name \in DOMAIN output_key_map
  THEN [data |-> SetKey(d, output_key_map[r.name], r.val), raised |-> FALSE]
  ELSE [data |-> d, raised |-> FALSE]

\* any other result: the value goes to its output key, failed or not, and a
\* unit that came with it replaces the default of the companion key
ApplyGeneric(d, r) ==
  IF r.name \in DOMAIN output_key_map
  THEN LET key == output_key_map[r.name]
           d1 == SetKey(d, key, r.val)
       IN  [data |-> IF r.unit # "" THEN SetKey(d1, key \o "_unit", r.unit) ELSE d1,
            raised |-> FALSE]
  ELSE [data |-> d, raised |-> FALSE]

\* one pass of the results loop
ApplyResult(d, r) ==
  CASE r.name = "STATUS" -> ApplyStatus(d, r)
    [] r.name = "VIN" -> ApplyVin(d, r)
    [] OTHER -> ApplyGeneric(d, r)

RECURSIVE ApplyResults(_, _, _)
ApplyResults(d, rs, i) ==
  IF i > Len(rs) THEN [data |-> d, raised |-> FALSE]
  ELSE LET step == ApplyResult(d, rs[i])
       IN  IF step.raised THEN step ELSE ApplyResults(step.data, rs, i + 1)

\* a gate that ignores dtc_count
NeedsDtc_MilOnly(d) == d.mil_on

\* the condition under which GET_DTC is queried
NeedsDtc(d) == d.mil_on /\ d.dtc_count > 0

\* [{"code": dtc[0], "desc": dtc[1]} for dtc in dtc_list if tuple of 2]
DtcIterRaises(v) == v.kind \in {"num", "bool", "quantity", "none"}

RECURSIVE DtcEntries(_)
DtcEntries(items) ==
  IF items = <<>> THEN <<>>
  ELSE LET dtc == Head(items)
           rest == DtcEntries(Tail(items))
       IN  IF dtc.kind = "tuple" /\ Len(dtc.t) = 2
           THEN <<[code |-> dtc.t[1], desc |-> dtc.t[2]]>> \o rest
           ELSE rest

\* a comprehension that stops at the first code
ApplyDtc_FirstOnly(d, r) ==
  IF ~r.err /\ ~IsNone(r.val)
  THEN IF DtcIterRaises(r.val) THEN [data |-> d, raised |-> TRUE]
       ELSE [data |-> [d EXCEPT !.dtcs = SubSeq(DtcEntries(r.val.t), 1, 1)], raised |-> FALSE]
  ELSE [data |-> d, raised |-> FALSE]

\* the GET_DTC result applied to data_to_send
ApplyDtc(d, r) ==
  IF ~r.err /\ ~IsNone(r.val)
  THEN IF DtcIterRaises(r.val) THEN [data |-> d, raised |-> TRUE]
       ELSE [data |-> [d EXCEPT !.dtcs = DtcEntries(r.val.t)], raised |-> FALSE]
  ELSE [data |-> d, raised |-> FALSE]

\* boost_pressure and the final status
WithBoost(d) ==
  LET intake == d.manifold_pressure
      baro == d.baro_pressure
  IN  IF ~IsNone(intake) /\ ~IsNone(baro)
      THEN IF FloatRaises(intake) \/ FloatRaises(baro)
           THEN [d EXCEPT !.boost_pressure = NoneV]
           ELSE [d EXCEPT !.boost_pressure = Num(Round2(FloatOf(intake) - FloatOf(baro)))]
      ELSE [d EXCEPT !.boost_pressure = NoneV]

FinishOk(d) == [WithBoost(d) EXCEPT !.status = "OK"]

\* an except branch that sets the status and leaves the details out
FinishError_NoDetails(d) == [d EXCEPT !.status = "OBD_QUERY_ERROR"]

\* the except branch of query_obd_data
FinishError(d) ==
  SetKey([d EXCEPT !.status = "OBD_QUERY_ERROR"], "error_details", Str("exception"))

\* ================================================================ state
VARIABLES
  obd_connection,  \* obd_connection.py's global: 0 is None, else a link id
  links,           \* per handle obd.OBD() has returned: "open", or "closed" once
                   \* close() has been called on it
  call,            \* the call of the connection module in progress, or the last one
  clients,         \* the client addresses that connect in this run
  desired,         \* the names of desired_command_names_for_gather under analysis
  answers,         \* per command: the responses the adapter gives in this run
  handler,         \* per client: the state of handler()
  transport,       \* per client: the websocket, "open" or "closed"
  pc,              \* per client: where stream_obd_data_to_client stands
  data,            \* per client: data_to_send of the cycle in progress
  results,         \* per client: the result tuple of each query of the cycle
  sleepFor,        \* per client: the argument of the asyncio.sleep in progress
  workq,           \* the executor's queue of to_thread calls not yet started
  running,         \* the obd_connection.query calls begun and not returned
  wire,            \* the responses on the adapter link, oldest first
  lastSent,        \* per client: the status of the message sent before the sleep in progress
  checked,         \* per client: what the readiness checks of the cycle came to
  dtcQueries,      \* per client: GET_DTC queries issued in the current cycle
  inbox,           \* per client: the inbound messages the handler's loop has read
  sentBefore,      \* per client: the keys that held a value in a snapshot already sent
                   \* (recorded only in the runs whose initial state turns it on)
  main             \* main.py's stream_obd_data_to_client for one client: its locals, its
                   \* position, the websocket and the last payload sent

connVars == <<obd_connection, links, call>>
streamVars ==
  <<clients, desired, answers, inbox, sentBefore, main, handler, transport, pc, data, results, sleepFor, workq, running,
    wire, lastSent, checked, dtcQueries>>
vars == <<connVars, streamVars>>

Clients == 1..NumClients
QueryNames == {"RPM", "SPEED", "FUEL_TYPE", "INTAKE_PRESSURE", "BAROMETRIC_PRESSURE",
               "VIN", "STATUS", "GET_DTC"}
NoResults == [n \in QueryNames |-> PendingResult]

\* no call of the connection module made yet.  The fields after pc, attempt
\* and max_retries record what the call in progress (or the last one) did.
NoCall == [op |-> "none", pc |-> "idle", attempt |-> 0, max_retries |-> 0,
           returning |-> FALSE, held |-> 0, opened |-> {}, sleeps |-> 0, setProtocols |-> 0,
           closes |-> 0, result |-> "none"]

\* the names of the list that become tasks (hasattr(obd.commands, name))
Launched == SelectSeq(desired, LAMBDA n : n \in LibraryCommands)
LaunchedNames == {Launched[i] : i \in 1..Len(Launched)}

\* main.py's publisher before any client has connected to it
MainAbsent ==
  [pc |-> "absent", current_rpm |-> 0, current_speed_mph |-> 0, data_status |-> "OK",
   open |-> FALSE, sent |-> "none", read_speed |-> 0]

StreamInitTracking(cs, names, ans, on) ==
  /\ main = MainAbsent
  /\ clients = cs
  /\ desired = names
  /\ answers = ans
  /\ handler = [c \in Clients |-> "absent"]
  /\ transport = [c \in Clients |-> "closed"]
  /\ pc = [c \in Clients |-> "absent"]
  /\ data = [c \in Clients |-> NoData]
  /\ results = [c \in Clients |-> NoResults]
  /\ sleepFor = [c \in Clients |-> 0]
  /\ workq = <<>>
  /\ running = {}
  /\ wire = <<>>
  /\ lastSent = [c \in Clients |-> "none"]
  /\ checked = [c \in Clients |-> "none"]
  /\ dtcQueries = [c \in Clients |-> 0]
  /\ inbox = [c \in Clients |-> 0]
  /\ sentBefore = [c \in Clients |-> [on |-> on, keys |-> {}]]

StreamInit(cs, names, ans) == StreamInitTracking(cs, names, ans, FALSE)

\* the manager as initialize_obd_connection leaves it at startup: no
\* connection held, or one open handle
ConnAfterStartup ==
  /\ call = NoCall
  /\ \/ obd_connection = 0 /\ links = <<>>
     \/ obd_connection = 1 /\ links = <<"open">>

\* ====================================================== obd_connection.py
\* what is_connected() and protocol_id() of the held handle come to, read
\* together: the adapter answers as it likes, or raises
ReadinessOutcomes ==
  IF obd_connection = 0 THEN {"absent"}
  ELSE {"raise", "not_connected", "no_protocol", "ready"}

\* the outcomes of one adapter call that returns a truth value
BoolOutcomes == {"true", "false", "raise"}

\* a caller invokes initialize_obd_connection(host, port, max_retries)
ConnectCall(m) ==
  /\ call.pc = "idle"
  /\ Len(links) + m <= MaxLinks
  /\ call' = [NoCall EXCEPT !.op = "connect", !.pc = "open", !.attempt = 1,
                            !.max_retries = m, !.held = obd_connection]
  /\ UNCHANGED <<obd_connection, links, streamVars>>

\* obd.OBD(connection_string, ...): a new link, assigned to the global
\* whatever it held; or the constructor raises and the global is untouched
OpenLink ==
  /\ call.pc = "open"
  /\ \/ /\ links' = Append(links, "open")
        /\ obd_connection' = Len(links) + 1
        /\ call' = [call EXCEPT !.pc = "chk_conn", !.opened = @ \cup {Len(links) + 1}]
     \/ /\ call' = [call EXCEPT !.pc = "finally"]
        /\ UNCHANGED <<obd_connection, links>>
  /\ UNCHANGED streamVars

\* if obd_connection.is_connected(), with the status() read of the log line
CheckConnected ==
  /\ call.pc = "chk_conn"
  /\ \E o \in BoolOutcomes :
       call' = [call EXCEPT !.pc = IF o = "true" THEN "chk_proto" ELSE "finally"]
  /\ UNCHANGED <<obd_connection, links, streamVars>>

\* if obd_connection.protocol_id(): return True, which runs the finally
\* clause before the function returns
CheckProtocol ==
  /\ call.pc = "chk_proto"
  /\ \E o \in BoolOutcomes :
       call' = CASE o = "true" -> [call EXCEPT !.pc = "finally", !.returning = TRUE]
                 [] o = "false" -> [call EXCEPT !.pc = "rechk_conn"]
                 [] OTHER -> [call EXCEPT !.pc = "finally"]
  /\ UNCHANGED <<obd_connection, links, streamVars>>

\* if not obd_connection.is_connected(): the second look before the fallback
RecheckConnected ==
  /\ call.pc = "rechk_conn"
  /\ \E o \in BoolOutcomes :
       call' = [call EXCEPT !.pc = IF o = "true" THEN "set_proto" ELSE "finally"]
  /\ UNCHANGED <<obd_connection, links, streamVars>>

\* elif obd_connection.set_protocol("6"), then time.sleep(0.5)
SetProtocol ==
  /\ call.pc = "set_proto"
  /\ \E o \in BoolOutcomes :
       call' = [call EXCEPT !.pc = IF o = "true" THEN "verify" ELSE "finally",
                            !.setProtocols = @ + 1]
  /\ UNCHANGED <<obd_connection, links, streamVars>>

\* if obd_connection.protocol_id() and obd_connection.protocol_name()
VerifyProtocol ==
  /\ call.pc = "verify"
  /\ \E o \in BoolOutcomes :
       call' = [call EXCEPT !.pc = "finally", !.returning = (o = "true")]
  /\ UNCHANGED <<obd_connection, links, streamVars>>

\* a retry loop that starts the next attempt without waiting
AfterAttempt_NoWait(k) ==
  IF k.returning THEN [k EXCEPT !.pc = "idle", !.result = "true"]
  ELSE IF k.attempt < k.max_retries THEN [k EXCEPT !.pc = "open", !.attempt = @ + 1]
  ELSE [k EXCEPT !.pc = "idle", !.result = "false"]

\* where the call goes once the finally clause is through: the pending
\* return True, the wait before the next attempt, or return False
AfterAttempt(k) ==
  IF k.returning THEN [k EXCEPT !.pc = "idle", !.result = "true"]
  ELSE IF k.attempt < k.max_retries THEN [k EXCEPT !.pc = "retry_wait"]
  ELSE [k EXCEPT !.pc = "idle", !.result = "false"]

\* The finally clause of an attempt.  It reads is_connected() and
\* protocol_id() again, outside any try: an exception here leaves the
\* function.  A handle that is not ready is closed (an exception of close()
\* is swallowed) and the global is set to None.
Cleanup ==
  /\ call.pc = "finally"
  /\ \E o \in ReadinessOutcomes :
       CASE o = "raise" ->
              /\ call' = [call EXCEPT !.pc = "idle", !.result = "raised"]
              /\ UNCHANGED <<obd_connection, links>>
         [] o \in {"not_connected", "no_protocol"} ->
              /\ links' = [links EXCEPT ![obd_connection] = "closed"]
              /\ obd_connection' = 0
              /\ call' = AfterAttempt([call EXCEPT !.closes = @ + 1])
         [] OTHER ->
              /\ call' = AfterAttempt(call)
              /\ UNCHANGED <<obd_connection, links>>
  /\ UNCHANGED streamVars

\* time.sleep(retry_delay), then the next iteration of the loop
RetryWait ==
  /\ call.pc = "retry_wait"
  /\ call' = [call EXCEPT !.pc = "open", !.attempt = @ + 1, !.sleeps = @ + 1]
  /\ UNCHANGED <<obd_connection, links, streamVars>>

\* what close_connection meets: no handle held; or the held handle reports
\* connected and close() returns or raises; or it reports not connected; or
\* is_connected() raises
CloseOutcomes ==
  IF obd_connection = 0 THEN {"absent"}
  ELSE {"closed", "close_raises", "not_connected", "raise"}

\* a close_connection that reports an absent connection as an error
CloseResult_AbsentFails(o) == IF o \in {"closed", "not_connected"} THEN "true" ELSE "false"

\* the return value: False only from the except clause
CloseResult(o) == IF o \in {"raise", "close_raises"} THEN "false" ELSE "true"

\* a close_connection without the finally clause and the assignment in except
HeldAfterClose_KeptOnRaise(o) == IF o \in {"raise", "close_raises"} THEN obd_connection ELSE 0

\* the global after the call: None on every path
HeldAfterClose(o) == 0

\* close_connection(): close() is called only on a handle that reports
\* connected; the global is None afterwards; False is returned if
\* is_connected() or close() raised
CloseCall ==
  /\ call.pc = "idle"
  /\ \E o \in CloseOutcomes :
       /\ call' = [NoCall EXCEPT !.op = "close", !.held = obd_connection,
                                 !.closes = IF o \in {"closed", "close_raises"} THEN 1 ELSE 0,
                                 !.result = CloseResult(o)]
       /\ links' = IF o \in {"closed", "close_raises"}
                   THEN [links EXCEPT ![obd_connection] = "closed"]
                   ELSE links
       /\ obd_connection' = HeldAfterClose(o)
  /\ UNCHANGED streamVars

\* ============================================================ the handler
\* websockets.serve accepts a client: handler() creates the streaming task
ClientConnects(c) ==
  /\ c \in clients
  /\ handler[c] = "absent"
  /\ handler' = [handler EXCEPT ![c] = "serving"]
  /\ transport' = [transport EXCEPT ![c] = "open"]
  /\ pc' = [pc EXCEPT ![c] = "start"]
  /\ UNCHANGED <<connVars, clients, desired, answers, inbox, sentBefore, main, data, results, sleepFor, workq, running, wire,
                 lastSent, checked, dtcQueries>>

\* the client goes away: the transport reports the connection closed
ClientCloses(c) ==
  /\ transport[c] = "open"
  /\ transport' = [transport EXCEPT ![c] = "closed"]
  /\ UNCHANGED <<connVars, clients, desired, answers, inbox, sentBefore, main, handler, pc, data, results, sleepFor, workq,
                 running, wire, lastSent, checked, dtcQueries>>

\* a handler that never finds its streaming task running
PublisherDone_Always(c) == TRUE

\* streaming_task.done()
PublisherDone(c) == pc[c] \in {"done", "cancelled"}

\* a publisher whose cycle swallows the cancellation and returns a snapshot
AfterCancel_SwallowedInCycle(at) == IF at \in {"gather", "dtc"} THEN "send" ELSE "cancelled"

\* where the publisher is once CancelledError has been thrown into it at the
\* await it stood at: its except asyncio.CancelledError ends the task
AfterCancel(at) == "cancelled"

\* a cancellation that takes every queued call with it
CancelledQueue_Everyone(c) == <<>>

\* the executor's queue once the to_thread calls of client c that have not
\* started are cancelled
CancelledQueue(c) == SelectSeq(workq, LAMBDA j : j.client # c)

\* handler() leaves its try: the message loop ended because the transport
\* closed, the reader raised, or the handler was cancelled.  In the finally
\* clause a streaming task that is not done is cancelled and awaited: the
\* to_thread calls not yet started are cancelled with it, a query already
\* running in a pool thread runs on.  When the handler returns, the
\* websockets server closes the connection.
HandlerExits(c) ==
  /\ handler[c] = "serving"
  /\ handler' = [handler EXCEPT ![c] = "exited"]
  /\ transport' = [transport EXCEPT ![c] = "closed"]
  /\ IF PublisherDone(c)
     THEN UNCHANGED <<pc, data, results, workq>>
     ELSE /\ pc' = [pc EXCEPT ![c] = AfterCancel(pc[c])]
          /\ data' = [data EXCEPT ![c] = NoData]
          /\ results' = [results EXCEPT ![c] = NoResults]
          /\ workq' = CancelledQueue(c)
  /\ UNCHANGED <<connVars, clients, desired, answers, inbox, sentBefore, main, sleepFor, running, wire, lastSent,
                 checked, dtcQueries>>

\* ============================================ stream_obd_data_to_client
DegradedStatuses == {"OBD_DISCONNECTED", "OBD_NO_PROTOCOL"}

\* the two degraded statuses exchanged
DegradedStatus_Swapped(outcome) ==
  IF outcome = "no_protocol" THEN "OBD_DISCONNECTED" ELSE "OBD_NO_PROTOCOL"

\* the status of the two early returns of query_obd_data
DegradedStatus(outcome) ==
  IF outcome = "no_protocol" THEN "OBD_NO_PROTOCOL" ELSE "OBD_DISCONNECTED"

\* an early return that carries the status alone
DegradedSnapshot_StatusOnly(outcome) == [status |-> DegradedStatus(outcome)]

\* the snapshot query_obd_data returns without querying
DegradedSnapshot(outcome) == [DefaultData EXCEPT !.status = DegradedStatus(outcome)]

\* a publisher without the longer degraded wait
SleepAfter_AlwaysPolling(status) == PollingInterval

\* the interval the publisher sleeps after sending a snapshot
SleepAfter(status) ==
  IF status \in DegradedStatuses THEN DegradedInterval ELSE PollingInterval

\* the tasks query_obd_data hands to asyncio.gather, in list order; each
\* awaits asyncio.to_thread, which queues the call on the executor
GatherJobs(c) ==
  [i \in 1..Len(Launched) |-> [client |-> c, name |-> Launched[i], conn |-> obd_connection]]

\* One pass of the loop up to the first await: the previous sleep (if any)
\* ends, query_obd_data builds data_to_send, checks readiness and either
\* returns a degraded snapshot or launches the gather.  An exception of the
\* readiness checks reaches the publisher's except Exception.
StartCycle(c) ==
  /\ pc[c] \in {"start", "sleep"}
  /\ sleepFor' = [sleepFor EXCEPT ![c] = 0]
  /\ lastSent' = [lastSent EXCEPT ![c] = "none"]
  /\ dtcQueries' = [dtcQueries EXCEPT ![c] = 0]
  /\ results' = [results EXCEPT ![c] = NoResults]
  /\ \E outcome \in ReadinessOutcomes :
       /\ checked' = [checked EXCEPT ![c] = outcome]
       /\ CASE outcome = "raise" ->
                 /\ pc' = [pc EXCEPT ![c] = "error"]
                 /\ data' = [data EXCEPT ![c] = NoData]
                 /\ UNCHANGED workq
            [] outcome \in {"absent", "not_connected", "no_protocol"} ->
                 /\ pc' = [pc EXCEPT ![c] = "send"]
                 /\ data' = [data EXCEPT ![c] = DegradedSnapshot(outcome)]
                 /\ UNCHANGED workq
            [] OTHER ->
                 /\ pc' = [pc EXCEPT ![c] = "gather"]
                 /\ data' = [data EXCEPT ![c] = DefaultData]
                 /\ workq' = workq \o GatherJobs(c)
  /\ UNCHANGED <<connVars, clients, desired, answers, inbox, sentBefore, main, handler, transport, running, wire>>

\* a publisher that goes back into its loop after the error payload
AfterError_Resumes == "start"

\* the except Exception clause is outside the while loop: past it only the
\* finally clause runs and the coroutine returns
AfterError == "done"

\* the publisher's except Exception: the error payload is sent if the
\* transport is open, and the task ends
SendError(c) ==
  /\ pc[c] = "error"
  /\ pc' = [pc EXCEPT ![c] = AfterError]
  /\ IF transport[c] = "open"
     THEN lastSent' = [lastSent EXCEPT ![c] = "error_payload"]
     ELSE UNCHANGED lastSent
  /\ UNCHANGED <<connVars, clients, desired, answers, inbox, sentBefore, main, handler, transport, data, results,
                 sleepFor, workq, running, wire, checked, dtcQueries>>

\* ------------------------------------------------- the executor's threads
QueryOutcomes(name) ==
  {[raises |-> TRUE, resp |-> NullResponse]} \cup
  {[raises |-> FALSE, resp |-> r] : r \in answers[name]}

\* query_obd_command reads get_connection() again: on None the expression
\* obd_connection.query raises AttributeError inside the try, before a
\* call is handed to the executor, and the except clause returns the
\* failed tuple
QueryCannotStart == obd_connection = 0

\* an adapter that goes on answering on a handle that was closed
OutcomesOn_ClosedStillAnswers(job) == QueryOutcomes(job.name)

\* a handle on which close() has been called answers no query: the call
\* returns a null response (or raises) without using the link
OutcomesOn(job) ==
  IF links[job.conn] = "closed" THEN {[raises |-> TRUE, resp |-> NullResponse]}
  ELSE QueryOutcomes(job.name)

\* whether a pool thread may take the next queued call
MayBegin == Len(workq) > 0 /\ Cardinality(running) < PoolSize

\* A pool thread takes the oldest queued call and enters
\* obd_connection.query: the request goes onto the link, and the adapter's
\* answer to it follows the answers already on the link.  A call that will
\* raise (a link error) puts no answer on the link.
BeginQuery ==
  /\ MayBegin
  /\ LET job == Head(workq)
     IN  \E o \in OutcomesOn(job) :
           /\ running' = running \cup {[client |-> job.client, name |-> job.name,
                                        raises |-> o.raises]}
           /\ wire' = IF o.raises THEN wire
                      ELSE Append(wire, [req |-> <<job.client, job.name>>, resp |-> o.resp])
  /\ workq' = Tail(workq)
  /\ UNCHANGED <<connVars, clients, desired, answers, inbox, sentBefore, main, handler, transport, pc, data, results, sleepFor,
                 lastSent, checked, dtcQueries>>

\* the result tuple query_obd_command makes of a finished call: the call
\* reads the oldest response on the link, whichever request it answers
ResultOf(job) ==
  IF job.raises \/ wire = <<>> THEN FailedResult(job.name)
  ELSE QueryResult(job.name, Head(wire).resp, Head(wire).req)

\* obd_connection.query returns (or raises) and query_obd_command resumes;
\* the result of a task whose publisher was cancelled is dropped
ReturnQuery(job) ==
  /\ job \in running
  /\ running' = running \ {job}
  /\ wire' = IF job.raises \/ wire = <<>> THEN wire ELSE Tail(wire)
  /\ results' = IF pc[job.client] \in {"gather", "dtc"}
                THEN [results EXCEPT ![job.client][job.name] = ResultOf(job)]
                ELSE results
  /\ UNCHANGED <<connVars, clients, desired, answers, inbox, sentBefore, main, handler, transport, pc, data, sleepFor, workq,
                 lastSent, checked, dtcQueries>>

\* ----------------------------------------- query_obd_data after the gather
\* a gather that returns on the first finished task
GatherComplete_FirstResult(c) == \E n \in LaunchedNames : results[c][n].done

\* asyncio.gather returns once every task has a result
GatherComplete(c) == \A n \in LaunchedNames : results[c][n].done

GatherResults(c) == [i \in 1..Len(Launched) |-> results[c][Launched[i]]]

\* the results loop, then either the except branch, the conditional GET_DTC
\* query, or the end of the function
GatherDone(c) ==
  /\ pc[c] = "gather"
  /\ GatherComplete(c)
  /\ LET out == ApplyResults(data[c], GatherResults(c), 1)
     IN  IF out.raised
         THEN /\ data' = [data EXCEPT ![c] = FinishError(out.data)]
              /\ pc' = [pc EXCEPT ![c] = "send"]
              /\ UNCHANGED <<workq, dtcQueries, results>>
         ELSE IF NeedsDtc(out.data) /\ "GET_DTC" \in LibraryCommands
         THEN /\ data' = [data EXCEPT ![c] = out.data]
              /\ pc' = [pc EXCEPT ![c] = "dtc"]
              /\ dtcQueries' = [dtcQueries EXCEPT ![c] = @ + 1]
              /\ IF QueryCannotStart
                 THEN /\ results' = [results EXCEPT ![c]["GET_DTC"] = FailedResult("GET_DTC")]
                      /\ UNCHANGED workq
                 ELSE /\ workq' = Append(workq, [client |-> c, name |-> "GET_DTC",
                                                 conn |-> obd_connection])
                      /\ UNCHANGED results
         ELSE /\ data' = [data EXCEPT ![c] = FinishOk(out.data)]
              /\ pc' = [pc EXCEPT ![c] = "send"]
              /\ UNCHANGED <<workq, dtcQueries, results>>
  /\ UNCHANGED <<connVars, clients, desired, answers, inbox, sentBefore, main, handler, transport, sleepFor, running,
                 wire, lastSent, checked>>

\* the GET_DTC query has returned: dtcs, boost_pressure and the status
DtcDone(c) ==
  /\ pc[c] = "dtc"
  /\ results[c]["GET_DTC"].done
  /\ LET out == ApplyDtc(data[c], results[c]["GET_DTC"])
     IN  data' = [data EXCEPT ![c] = IF out.raised THEN FinishError(out.data)
                                     ELSE FinishOk(out.data)]
  /\ pc' = [pc EXCEPT ![c] = "send"]
  /\ UNCHANGED <<connVars, clients, desired, answers, inbox, sentBefore, main, handler, transport, results, sleepFor, workq,
                 running, wire, lastSent, checked, dtcQueries>>

\* ------------------------------------------------------ send, then sleep
\* a publisher that goes on to the sleep after a send that found the
\* connection closed
AfterClosedSend_SleepsOn == "sleep"

\* except websockets.exceptions.ConnectionClosed: break
AfterClosedSend == "done"

\* a publisher that gives up after sending an OBD_QUERY_ERROR snapshot
AfterSend_StopsOnError(status) == IF status = "OBD_QUERY_ERROR" THEN "done" ELSE "sleep"

\* after a send that succeeded the loop body goes on to its sleep, whatever
\* the status sent
AfterSend(status) == "sleep"

\* the record of what a client has been sent, after snapshot d went out
Remember(h, d) ==
  IF h.on THEN [h EXCEPT !.keys = @ \cup {k \in ValueKeys : ~IsNone(d[k])}] ELSE h

\* json.dumps and websocket.send of the snapshot query_obd_data returned
\* (every modelled value is a number, a string, a tuple or a list, which
\* json.dumps accepts); a
\* closed transport raises ConnectionClosed and the loop breaks, otherwise
\* the publisher goes to sleep for the interval its status selects
Send(c) ==
  /\ pc[c] = "send"
  /\ IF transport[c] = "open"
     THEN /\ pc' = [pc EXCEPT ![c] = AfterSend(data[c].status)]
          /\ sleepFor' = [sleepFor EXCEPT ![c] = SleepAfter(data[c].status)]
          /\ lastSent' = [lastSent EXCEPT ![c] = data[c].status]
     ELSE /\ pc' = [pc EXCEPT ![c] = AfterClosedSend]
          /\ UNCHANGED <<sleepFor, lastSent>>
  /\ data' = [data EXCEPT ![c] = NoData]
  /\ results' = [results EXCEPT ![c] = NoResults]
  /\ checked' = [checked EXCEPT ![c] = "none"]
  /\ sentBefore' = [sentBefore EXCEPT ![c] = IF transport[c] = "open" THEN Remember(@, data[c])
                                               ELSE @]
  /\ UNCHANGED <<connVars, clients, desired, answers, inbox, main, handler, transport, workq, running,
                 wire, dtcQueries>>

\* --------------------------------------------------- inbound messages
\* a handler whose loop body restarts the publisher's wait on a message
AfterMessage_EndsSleep(at) == IF at = "sleep" THEN "start" ELSE at

\* where the publisher stands after the handler has read a message: the
\* loop body logs the message and touches nothing of the streaming task
AfterMessage(at) == at

\* async for message in websocket: one inbound message is read and logged
ReceiveMessage(c) ==
  /\ handler[c] = "serving"
  /\ transport[c] = "open"
  /\ inbox[c] < MaxInbound
  /\ inbox' = [inbox EXCEPT ![c] = @ + 1]
  /\ pc' = [pc EXCEPT ![c] = AfterMessage(pc[c])]
  /\ UNCHANGED <<connVars, clients, desired, answers, sentBefore, main, handler, transport, data, results,
                 sleepFor, workq, running, wire, lastSent, checked, dtcQueries>>

\* ================================================================ main.py
\* The streaming loop of main.py, the earlier single-file server: it queries
\* RPM and SPEED one after the other on the event loop's thread and keeps
\* current_rpm and current_speed_mph across iterations.  read_speed is the
\* last speed read successfully, in mph (0 before any, and after a
\* disconnected cycle, which resets both values).
MainRpmReadings ==
  {NullResponse, Response(Quantity(3000456, "revolutions_per_minute"), "rpm"),
   Response(Quantity(800000, "revolutions_per_minute"), "rpm")}
MainSpeedReadings ==
  {NullResponse, Response(Quantity(100000, "kph"), "kph"), Response(Quantity(50000, "kph"), "kph")}

\* current_speed_kmph starts at 0.0 in every iteration, takes the magnitude of
\* a reading that succeeded, and is converted whether or not one did
MainSpeed(prev, response) ==
  LET current_speed_kmph == IF response.isnull THEN 0 ELSE response.value.n
  IN  SpeedToMph(current_speed_kmph)

\* the status of a cycle from the two readings
MainStatus(rpm, speed) ==
  IF rpm.isnull /\ speed.isnull THEN "RPM_SPEED_ERROR"
  ELSE IF speed.isnull THEN "SPEED_ERROR"
  ELSE IF rpm.isnull THEN "RPM_ERROR"
  ELSE "OK"

\* a client connects to main.py's server: handler() creates the task
MainConnects ==
  /\ main.pc = "absent"
  /\ main' = [main EXCEPT !.pc = "loop", !.open = TRUE]
  /\ UNCHANGED <<connVars, clients, desired, answers, inbox, sentBefore, handler, transport, pc,
                 data, results, sleepFor, workq, running, wire, lastSent, checked, dtcQueries>>

\* one iteration up to its first await: the readiness check, then either the
\* two queries, or the reset and the 2 s sleep; an exception of the adapter
\* goes to the except Exception clause
MainCycle ==
  /\ main.pc = "loop"
  /\ \/ \E rpm \in MainRpmReadings, speed \in MainSpeedReadings :
          main' = [main EXCEPT
                     !.pc = "send",
                     !.current_rpm = IF rpm.isnull THEN @ ELSE Round2(rpm.value.n),
                     !.current_speed_mph = MainSpeed(@, speed),
                     !.read_speed = IF speed.isnull THEN @ ELSE SpeedToMph(speed.value.n),
                     !.data_status = MainStatus(rpm, speed)]
     \/ main' = [main EXCEPT !.pc = "degraded_sleep", !.current_rpm = 0,
                             !.current_speed_mph = 0, !.read_speed = 0,
                             !.data_status = "OBD_DISCONNECTED"]
     \/ main' = [main EXCEPT !.pc = "error"]
  /\ UNCHANGED <<connVars, clients, desired, answers, inbox, sentBefore, handler, transport, pc,
                 data, results, sleepFor, workq, running, wire, lastSent, checked, dtcQueries>>

\* an asyncio.sleep ends: the 2 s of a disconnected cycle lead to the send,
\* the polling interval to the next iteration
MainWakes ==
  /\ main.pc \in {"degraded_sleep", "sleep"}
  /\ main' = [main EXCEPT !.pc = IF @ = "degraded_sleep" THEN "send" ELSE "loop"]
  /\ UNCHANGED <<connVars, clients, desired, answers, inbox, sentBefore, handler, transport, pc,
                 data, results, sleepFor, workq, running, wire, lastSent, checked, dtcQueries>>

\* websocket.send(json.dumps(data_to_send)); ConnectionClosed ends the task;
\* the polling sleep is skipped after a disconnected cycle
MainSend ==
  /\ main.pc = "send"
  /\ main' = IF main.open
             THEN [main EXCEPT
                     !.pc = IF main.data_status # "OBD_DISCONNECTED" THEN "sleep" ELSE "loop",
                     !.sent = main.data_status]
             ELSE [main EXCEPT !.pc = "done"]
  /\ UNCHANGED <<connVars, clients, desired, answers, inbox, sentBefore, handler, transport, pc,
                 data, results, sleepFor, workq, running, wire, lastSent, checked, dtcQueries>>

\* except Exception: the error payload, unless the websocket is closed
MainSendError ==
  /\ main.pc = "error"
  /\ main' = [main EXCEPT !.pc = "done", !.sent = IF main.open THEN "error_payload" ELSE @]
  /\ UNCHANGED <<connVars, clients, desired, answers, inbox, sentBefore, handler, transport, pc,
                 data, results, sleepFor, workq, running, wire, lastSent, checked, dtcQueries>>

\* the client goes away: the handler's loop ends and its finally clause
\* cancels a task that is not done
MainClientCloses ==
  /\ main.open
  /\ main' = [main EXCEPT !.open = FALSE,
                          !.pc = IF @ \in {"done", "absent"} THEN @ ELSE "cancelled"]
  /\ UNCHANGED <<connVars, clients, desired, answers, inbox, sentBefore, handler, transport, pc,
                 data, results, sleepFor, workq, running, wire, lastSent, checked, dtcQueries>>

\* ========================================================= specifications
StreamNext ==
  \/ \E c \in Clients : ClientConnects(c)
  \/ \E c \in Clients : ClientCloses(c)
  \/ \E c \in Clients : HandlerExits(c)
  \/ \E c \in Clients : StartCycle(c)
  \/ BeginQuery
  \/ \E job \in running : ReturnQuery(job)
  \/ \E c \in Clients : GatherDone(c)
  \/ \E c \in Clients : DtcDone(c)
  \/ \E c \in Clients : Send(c)
  \/ \E c \in Clients : SendError(c)

\* the adapter's answers in the runs that are about the interleaving: one
\* reading per command, the MIL on or off
FewAnswers ==
  [n \in QueryNames |->
     CASE n = "STATUS" -> {Response(StatusMilOn2, ""), Response(StatusMilOff2, "")}
       [] n = "GET_DTC" -> {Response(DtcPairs, "")}
       [] n = "VIN" -> {Response(Str(VinChevrolet), "")}
       [] OTHER -> AdapterValues(n) \ {NullResponse}]

\* the answers in the runs over the whole catalog: a reading or a null
\* response per command
CatalogAnswers ==
  [n \in QueryNames |->
     CASE n = "STATUS" -> {Response(StatusMilOn2, ""), Response(StatusMilOff2, "")}
       [] n = "GET_DTC" -> {Response(DtcPairs, "")}
       [] OTHER -> AdapterValues(n)]

AllAnswers == [n \in QueryNames |-> AdapterValues(n)]

\* two clients stream concurrently
Init == ConnAfterStartup /\ StreamInit(Clients, <<"SPEED", "STATUS">>, FewAnswers)
Next == StreamNext
Spec == Init /\ [][Next]_vars

\* one client, every modelled command
InitCycle == ConnAfterStartup /\ StreamInit({1}, GatherAll, CatalogAnswers)
SpecCycle == InitCycle /\ [][Next]_vars

\* one client, every modelled answer to STATUS and GET_DTC
InitStatus == ConnAfterStartup /\ StreamInit({1}, <<"SPEED", "STATUS">>, AllAnswers)
SpecStatus == InitStatus /\ [][Next]_vars

\* one client streams and sends messages of its own
NextInbound ==
  \/ StreamNext
  \/ \E c \in Clients : ReceiveMessage(c)
InitInbound == ConnAfterStartup /\ StreamInit({1}, <<"SPEED", "STATUS">>, FewAnswers)
SpecInbound == InitInbound /\ [][NextInbound]_vars

\* one client over many cycles, with the record of what it was sent
InitFresh ==
  /\ ConnAfterStartup
  /\ StreamInitTracking({1}, <<"SPEED", "STATUS">>, FewAnswers, TRUE)
SpecFresh == InitFresh /\ [][Next]_vars

\* the characters a VIN may carry at position 10 in the runs over the year
\* table: every key of the table and some that are not in it
YearChars ==
  {"A", "B", "C", "D", "E", "F", "G", "H", "J", "K", "L", "M", "N", "P", "R",
   "S", "T", "V", "W", "X", "Y", "1", "2", "3", "4", "5", "6", "7", "8", "9",
   "0", "I", "O", "Q", "U", "Z", "a"}

\* a 17-character VIN with ch at position 10
VinWithYear(ch) == "1G1ZT5382" \o ch \o "F109149"

YearAnswers ==
  [n \in QueryNames |->
     IF n = "VIN" THEN {Response(Str(VinWithYear(ch)), "") : ch \in YearChars}
     ELSE FewAnswers[n]]

\* one client whose cycles query the VIN and the status
InitYear == ConnAfterStartup /\ StreamInit({1}, <<"VIN", "STATUS">>, YearAnswers)
SpecYear == InitYear /\ [][Next]_vars

\* The event loop runs every task that is ready, and a pool thread that
\* holds a call finishes it: the steps of the publishers and of the executor
\* are taken when they stay enabled.  Nothing obliges a client to connect or
\* to leave, nor a handler to end.
PublisherStep(c) ==
  StartCycle(c) \/ GatherDone(c) \/ DtcDone(c) \/ Send(c) \/ SendError(c)
ExecutorStep == BeginQuery \/ \E job \in running : ReturnQuery(job)
Fairness ==
  /\ \A c \in Clients : WF_vars(PublisherStep(c))
  /\ WF_vars(ExecutorStep)

\* one client, every modelled answer, under fair scheduling
SpecFair == InitStatus /\ [][Next]_vars /\ Fairness

\* one client streams while close_connection() is called on the module:
\* the connection a cycle found ready is closed and absent before the cycle
\* has finished
NextLost ==
  \/ CloseCall
  \/ \E c \in Clients : ClientConnects(c)
  \/ \E c \in Clients : ClientCloses(c)
  \/ \E c \in Clients : HandlerExits(c)
  \/ \E c \in Clients : StartCycle(c)
  \/ BeginQuery
  \/ \E job \in running : ReturnQuery(job)
  \/ \E c \in Clients : GatherDone(c)
  \/ \E c \in Clients : DtcDone(c)
  \/ \E c \in Clients : Send(c)
  \/ \E c \in Clients : SendError(c)
InitLost ==
  /\ obd_connection = 1
  /\ links = <<"open">>
  /\ call = NoCall
  /\ StreamInit({1}, <<"SPEED", "STATUS">>, FewAnswers)
SpecLost == InitLost /\ [][NextLost]_vars

\* main.py's server with one client
NextMain ==
  \/ MainConnects
  \/ MainCycle
  \/ MainWakes
  \/ MainSend
  \/ MainSendError
  \/ MainClientCloses
InitMain == ConnAfterStartup /\ StreamInit({}, <<>>, FewAnswers)
SpecMain == InitMain /\ [][NextMain]_vars

\* the connection module alone: any sequence of connect and close calls
ConnNext ==
  \/ \E m \in 1..MaxRetriesArg : ConnectCall(m)
  \/ OpenLink
  \/ CheckConnected
  \/ CheckProtocol
  \/ RecheckConnected
  \/ SetProtocol
  \/ VerifyProtocol
  \/ Cleanup
  \/ RetryWait
  \/ CloseCall
InitConn ==
  /\ obd_connection = 0
  /\ links = <<>>
  /\ call = NoCall
  /\ StreamInit({}, <<>>, FewAnswers)
SpecConn == InitConn /\ [][ConnNext]_vars

\* the program from its entry point: __main__ calls
\* initialize_obd_connection with the default max_retries, ignores what it
\* returns and starts the server; one client streams
StartupConnect ==
  /\ call = NoCall
  /\ ConnectCall(DefaultMaxRetries)

\* initialize_obd_connection has returned and asyncio.run(start_server) is
\* serving (an exception of the call skips the server)
ServerUp ==
  /\ call.op = "connect"
  /\ call.pc = "idle"
  /\ call.result \in {"true", "false"}

NextStartup ==
  \/ StartupConnect
  \/ OpenLink
  \/ CheckConnected
  \/ CheckProtocol
  \/ RecheckConnected
  \/ SetProtocol
  \/ VerifyProtocol
  \/ Cleanup
  \/ RetryWait
  \/ ServerUp /\ \E c \in Clients : ClientConnects(c)
  \/ ServerUp /\ \E c \in Clients : ClientCloses(c)
  \/ ServerUp /\ \E c \in Clients : HandlerExits(c)
  \/ ServerUp /\ \E c \in Clients : StartCycle(c)
  \/ ServerUp /\ BeginQuery
  \/ ServerUp /\ \E job \in running : ReturnQuery(job)
  \/ ServerUp /\ \E c \in Clients : GatherDone(c)
  \/ ServerUp /\ \E c \in Clients : DtcDone(c)
  \/ ServerUp /\ \E c \in Clients : Send(c)
  \/ ServerUp /\ \E c \in Clients : SendError(c)
InitStartup ==
  /\ obd_connection = 0
  /\ links = <<>>
  /\ call = NoCall
  /\ StreamInit({1}, <<"SPEED", "STATUS">>, FewAnswers)
SpecStartup == InitStartup /\ [][NextStartup]_vars

\* ================================================================ claims
\* the jobs of client c that are queued or running on the adapter
Outstanding(c) ==
  {j \in running : j.client = c} \cup
  {workq[i] : i \in {k \in 1..Len(workq) : workq[k].client = c}}

OpenLinks == {i \in 1..Len(links) : links[i] = "open"}

\* a connect call has ended without any attempt reaching return True
ConnectExhausted == call.op = "connect" /\ call.pc = "idle" /\ ~call.returning

\* C1: at every instant at most one query is outstanding on the shared
\* adapter connection: no call of the adapter's query begins while another
\* has begun and not returned.
C1_ExclusiveAccess == Cardinality(running) <= 1

\* C2: every value in a snapshot about to be sent to a client is the
\* response to the query that client's cycle issued for that parameter.
C2_OwnResponses ==
  \A c \in Clients : \A n \in QueryNames :
    (pc[c] = "send" /\ results[c][n].src # NoRequest) => results[c][n].src = <<c, n>>

\* C3: when every attempt of a connect call has failed, the call returns
\* failure, every link it opened has been closed, and no connection is held.
C3_ExhaustedLeavesNothing ==
  ConnectExhausted =>
    /\ call.result = "false"
    /\ \A i \in call.opened : links[i] = "closed"
    /\ obd_connection = 0

\* C4: across any sequence of connect and close calls at most one adapter
\* link is open at any time.
C4_AtMostOneLink == Cardinality(OpenLinks) <= 1

\* the keys every snapshot declares
DeclaredKeys == ValueKeys \cup UnitKeys \cup {"mil_on", "dtc_count", "dtcs", "status"}

\* the queries of client c's cycle that came back failed
Failed(c) == {n \in QueryNames : results[c][n].done /\ results[c][n].err}

\* mil_on and dtc_count as a status value gives them
StatusFields(v) ==
  IF v.kind = "tuple" /\ Len(v.t) >= 2 /\ ~IntRaises(v.t[2])
  THEN [mil_on |-> Truthy(v.t[1]), dtc_count |-> IntOf(v.t[2]) \div 1000]
  ELSE [mil_on |-> FALSE, dtc_count |-> 0]

\* the status result of client c's cycle gave mil_on = true and dtc_count > 0
StatusSaysFetch(c) ==
  LET f == StatusFields(results[c]["STATUS"].val)
  IN  f.mil_on /\ f.dtc_count > 0

\* C5: every snapshot about to be sent, in every connection state and for
\* every combination of failed queries, has every declared key (nothing else
\* but error_details), and the field of a failed query is null.
C5_SchemaComplete ==
  \A c \in Clients :
    pc[c] = "send" =>
      /\ DeclaredKeys \subseteq DOMAIN data[c]
      /\ (DOMAIN data[c]) \ DeclaredKeys \subseteq {"error_details"}
      /\ \A n \in Failed(c) \cap DOMAIN output_key_map : IsNone(data[c][output_key_map[n]])

C5_Witness ==
  /\ pc[1] = "send"
  /\ data[1].status = "OK"
  /\ Failed(1) = {"RPM", "VIN"}
  /\ ~IsNone(data[1].speed)

C7_SnapshotAfterAllQueries ==
  \A c \in Clients :
    pc[c] = "send" =>
      /\ Outstanding(c) = {}
      /\ checked[c] = "ready" => \A n \in LaunchedNames : results[c][n].done

C7_Witness ==
  /\ pc[1] = "send"
  /\ checked[1] = "ready"
  /\ results[1]["RPM"].err
  /\ ~results[1]["SPEED"].err
  /\ ~results[1]["STATUS"].err

\* C8: GET_DTC is queried in a cycle exactly when the status result gave
\* mil_on = true and dtc_count > 0, once, and only after every query of the
\* fan-out has completed; otherwise dtcs is the empty list.
C8_DtcGating ==
  \A c \in Clients :
    /\ pc[c] = "gather" => dtcQueries[c] = 0 /\ \A j \in Outstanding(c) : j.name # "GET_DTC"
    /\ pc[c] = "dtc" =>
         /\ dtcQueries[c] = 1
         /\ StatusSaysFetch(c)
         /\ \A n \in LaunchedNames : results[c][n].done
         /\ \A j \in Outstanding(c) : j.name = "GET_DTC"
    /\ pc[c] = "send" =>
         /\ dtcQueries[c] = IF StatusSaysFetch(c) THEN 1 ELSE 0
         /\ ~StatusSaysFetch(c) => data[c].dtcs = <<>>

C8_Witness ==
  /\ pc[1] = "send"
  /\ dtcQueries[1] = 1
  /\ Len(data[1].dtcs) = 2
  /\ ~results[1]["SPEED"].err

\* C9: a cycle whose readiness check found no connection or a link not
\* connected yields status OBD_DISCONNECTED, one that found no protocol
\* yields OBD_NO_PROTOCOL; every telemetry value is null and the cycle has
\* issued no query.
C9_DegradedSnapshot ==
  \A c \in Clients :
    (pc[c] = "send" /\ checked[c] \in {"absent", "not_connected", "no_protocol"}) =>
      /\ data[c].status = IF checked[c] = "no_protocol" THEN "OBD_NO_PROTOCOL"
                          ELSE "OBD_DISCONNECTED"
      /\ \A k \in ValueKeys : IsNone(data[c][k])
      /\ results[c] = NoResults
      /\ Outstanding(c) = {}
      /\ dtcQueries[c] = 0

C9_Witness ==
  /\ pc[1] = "send"
  /\ checked[1] = "no_protocol"
  /\ data[1].status = "OBD_NO_PROTOCOL"
  /\ pc[2] = "send"
  /\ checked[2] = "not_connected"
  /\ data[2].status = "OBD_DISCONNECTED"

\* C10: a sleep begins exactly when a snapshot has been sent, for 2 s after
\* a degraded status and for the polling interval after any other; a sleep
\* ends only in the next readiness check (or the task's cancellation), and
\* a readiness check happens only at the start or out of a sleep.
C10_SendThenOneSleep ==
  [][\A c \in Clients :
       /\ (pc[c] # "sleep" /\ pc'[c] = "sleep")
            <=> (pc[c] = "send" /\ pc'[c] \notin {"send", "cancelled"} /\ transport[c] = "open")
       /\ (pc[c] # "sleep" /\ pc'[c] = "sleep") =>
            /\ lastSent'[c] = data[c].status
            /\ sleepFor'[c] = IF data[c].status \in {"OBD_DISCONNECTED", "OBD_NO_PROTOCOL"}
                              THEN 2000 ELSE PollingInterval
       /\ (pc[c] = "sleep" /\ pc'[c] # "sleep") =>
            /\ pc'[c] \in {"send", "gather", "error", "cancelled"}
            /\ pc'[c] # "cancelled" => checked'[c] # "none"
       /\ (checked[c] = "none" /\ checked'[c] # "none") => pc[c] \in {"start", "sleep"}]_vars

C10_Witness ==
  /\ pc[1] = "sleep"
  /\ lastSent[1] = "OBD_NO_PROTOCOL"
  /\ sleepFor[1] = 2000
  /\ pc[2] = "sleep"
  /\ lastSent[2] = "OK"
  /\ sleepFor[2] = PollingInterval

\* C11: a send that finds the connection closed ends the publisher: from
\* there it sends nothing, checks readiness no more and launches no query.
C11_ClosedSendEndsLoop ==
  [][\A c \in Clients :
       /\ (pc[c] = "send" /\ transport[c] = "closed" /\ pc'[c] # "send") =>
            /\ pc'[c] \in {"done", "cancelled"}
            /\ lastSent'[c] = lastSent[c]
       /\ pc[c] = "done" =>
            /\ pc'[c] = "done"
            /\ lastSent'[c] = lastSent[c]
            /\ checked'[c] = checked[c]
            /\ Outstanding(c)' \subseteq Outstanding(c)]_vars

C11_Witness ==
  /\ pc[1] = "done"
  /\ checked[1] = "none"
  /\ transport[1] = "closed"
  /\ handler[1] = "serving"
  /\ pc[2] = "gather"

\* C12: a publisher that its handler cancels, wherever it stands, ends
\* without sending, and nothing is sent for it afterwards: the results that
\* still arrive for the interrupted cycle are dropped.
C12_NoSendAfterCancel ==
  [][\A c \in Clients :
       /\ (handler[c] = "serving" /\ handler'[c] = "exited" /\ pc[c] \notin {"done", "cancelled"}) =>
            /\ pc'[c] = "cancelled"
            /\ lastSent'[c] = lastSent[c]
            /\ data'[c] = NoData
       /\ pc[c] = "cancelled" =>
            /\ pc'[c] = "cancelled"
            /\ lastSent'[c] = lastSent[c]
            /\ data'[c] = NoData
            /\ results'[c] = NoResults]_vars

C12_Witness ==
  /\ pc[1] = "cancelled"
  /\ \E j \in running : j.client = 1
  /\ lastSent[1] = "none"
  /\ transport[2] = "open"

\* C13: a handler that has exited has left no publisher running: the task
\* had ended by itself or was cancelled and awaited.
C13_HandlerExitEndsPublisher ==
  \A c \in Clients : handler[c] = "exited" => pc[c] \in {"done", "cancelled"}

C13_Witness ==
  /\ handler[1] = "exited"
  /\ pc[1] = "cancelled"
  /\ handler[2] = "exited"
  /\ pc[2] = "done"

\* C14: the step in which a client's transport closes or its handler exits
\* changes nothing of any other client's session (publisher, handler,
\* transport, snapshot, results, queries) nor the adapter connection.
C14_OtherSessionsUntouched ==
  [][\A c \in Clients :
       ((transport[c] = "open" /\ transport'[c] = "closed")
          \/ (handler[c] = "serving" /\ handler'[c] = "exited")) =>
         /\ \A d \in Clients \ {c} :
              /\ pc'[d] = pc[d]
              /\ handler'[d] = handler[d]
              /\ transport'[d] = transport[d]
              /\ data'[d] = data[d]
              /\ results'[d] = results[d]
              /\ lastSent'[d] = lastSent[d]
              /\ sleepFor'[d] = sleepFor[d]
              /\ Outstanding(d)' = Outstanding(d)
         /\ obd_connection' = obd_connection
         /\ links' = links]_vars

C14_Witness ==
  /\ handler[1] = "exited"
  /\ pc[1] = "cancelled"
  /\ transport[2] = "open"
  /\ pc[2] = "send"
  /\ data[2].status = "OK"

\* C15: close_connection with no connection held returns True, calls no
\* adapter close and changes nothing; every close leaves no connection held,
\* so a second close in a row is such a call.
C15_CloseIdempotent ==
  [][(call.pc = "idle" /\ call'.op = "close") =>
       /\ obd_connection' = 0
       /\ obd_connection = 0 =>
            /\ call'.result = "true"
            /\ call'.closes = 0
            /\ links' = links]_vars

C15_Witness ==
  /\ call.op = "close"
  /\ call.held = 0
  /\ call.result = "true"
  /\ call.closes = 0
  /\ Len(links) > 0
  /\ OpenLinks = {}

\* C16: after close_connection no connection is held, whatever
\* is_connected() and close() did, and the call has returned True or False:
\* no exception leaves it.
C16_CloseAlwaysReleases ==
  call.op = "close" =>
    /\ obd_connection = 0
    /\ call.result \in {"true", "false"}

C16_Witness ==
  /\ call.op = "close"
  /\ call.held # 0
  /\ call.closes = 1
  /\ call.result = "false"
  /\ obd_connection = 0

\* C17: every message pushed to a client carries a status that is one of
\* OK, OBD_DISCONNECTED, OBD_NO_PROTOCOL, OBD_QUERY_ERROR.  (lastSent is the
\* status of the last message a client was sent in the running cycle; the
\* payload of the publisher's except Exception has no status field.)
C17_EveryMessageHasStatus ==
  \A c \in Clients :
    lastSent[c] \in {"none", "OK", "OBD_DISCONNECTED", "OBD_NO_PROTOCOL", "OBD_QUERY_ERROR"}

\* C18: a snapshot about to be sent carries error_details exactly when its
\* status is OBD_QUERY_ERROR.
C18_DetailsIffQueryError ==
  \A c \in Clients :
    pc[c] = "send" =>
      ("error_details" \in DOMAIN data[c] <=> data[c].status = "OBD_QUERY_ERROR")

C18_Witness ==
  /\ pc[1] = "send"
  /\ data[1].status = "OBD_QUERY_ERROR"
  /\ "error_details" \in DOMAIN data[1]
  /\ data[1].error_details = Str("exception")

\* the processing of the results the publisher is waiting for raises
ProcessingRaises(c) ==
  \/ pc[c] = "gather" /\ GatherComplete(c)
       /\ ApplyResults(data[c], GatherResults(c), 1).raised
  \/ pc[c] = "dtc" /\ results[c]["GET_DTC"].done
       /\ ApplyDtc(data[c], results[c]["GET_DTC"]).raised

\* C19: an exception raised while a cycle's results are processed gives
\* that cycle's snapshot the status OBD_QUERY_ERROR with error details; the
\* snapshot is sent, and after it the publisher sleeps the polling interval
\* and then starts the next cycle instead of ending.
C19_QueryErrorKeepsLoop ==
  [][\A c \in Clients :
       /\ (ProcessingRaises(c) /\ pc'[c] = "send") =>
            /\ data'[c].status = "OBD_QUERY_ERROR"
            /\ "error_details" \in DOMAIN data'[c]
       /\ (/\ pc[c] = "send"
           /\ data[c].status = "OBD_QUERY_ERROR"
           /\ transport[c] = "open"
           /\ pc'[c] \notin {"send", "cancelled"}) =>
            /\ lastSent'[c] = "OBD_QUERY_ERROR"
            /\ pc'[c] = "sleep"
            /\ sleepFor'[c] = PollingInterval
       /\ (pc[c] = "sleep" /\ pc'[c] \notin {"sleep", "cancelled"}) =>
            /\ pc'[c] \in {"gather", "send", "error"}
            /\ checked'[c] # "none"]_vars

C19_Witness ==
  /\ pc[1] = "sleep"
  /\ lastSent[1] = "OBD_QUERY_ERROR"
  /\ sleepFor[1] = PollingInterval
  /\ transport[1] = "open"
  /\ handler[1] = "serving"

\* C20: once initialize_obd_connection has returned False at startup, every
\* snapshot sent to a client has the status OBD_DISCONNECTED.
C20_FailedStartupStaysDisconnected ==
  (ServerUp /\ call.result = "false") =>
    \A c \in Clients : lastSent[c] \in {"none", "OBD_DISCONNECTED"}

\* C21: no exception raised during a connection attempt leaves
\* initialize_obd_connection: the call ends by returning True or False.
C21_NoExceptionLeavesConnect ==
  call.op = "connect" => call.result # "raised"

\* C22: a call that has returned True opened at most max_retries links, one
\* per attempt made, and leaves the link of its last attempt open and held.
C22_SuccessLeavesLinkOpen ==
  (call.op = "connect" /\ call.pc = "idle" /\ call.result = "true") =>
    /\ Cardinality(call.opened) <= call.attempt
    /\ call.attempt <= call.max_retries
    /\ obd_connection \in call.opened
    /\ links[obd_connection] = "open"

\* C23: when the first attempt has issued its one set_protocol("6") and no
\* protocol was confirmed afterwards, the cleanup closes the link, leaves no
\* connection held, and the call goes on to the next attempt or returns
\* False.
C23_FallbackFailureClosesLink ==
  [][(/\ call.pc = "finally"
      /\ call.attempt = 1
      /\ call.setProtocols = 1
      /\ ~call.returning) =>
       /\ obd_connection' = 0
       /\ links'[obd_connection] = "closed"
       /\ \/ call'.pc = "retry_wait"
          \/ call'.pc = "idle" /\ call'.result = "false"]_vars

\* C24: a VIN whose first 3 characters are in the manufacturer table gets
\* that entry's make: a snapshot whose vin is "1G1ZT53826F109149" has
\* vehicle_make "Chevrolet".
C24_ThreeCharPrefixFirst ==
  \A c \in Clients :
    (pc[c] = "send" /\ data[c].status = "OK" /\ data[c].vin = Str(VinChevrolet)) =>
      data[c].vehicle_make = Str("Chevrolet")

\* the three fields decode_vin fills are all null in snapshot d
VinFieldsNull(d) ==
  IsNone(d.vehicle_make) /\ IsNone(d.vehicle_year) /\ IsNone(d.vehicle_country)

\* C25: in a snapshot about to be sent, the decoded VIN fields are non-null
\* only if the cycle's VIN query succeeded with a string of exactly 17
\* characters, and then they are what decode_vin gives for it; a VIN of
\* another length is kept as vin with the three fields null; a failed VIN
\* query leaves vin and the three fields null.
C25_VinFieldsOnlyFor17 ==
  \A c \in Clients :
    pc[c] = "send" =>
      LET d == data[c]
          r == results[c]["VIN"]
          ok == r.done /\ ~r.err
      IN  /\ ~VinFieldsNull(d) => ok /\ r.val.kind = "str" /\ Len(r.val.s) = VinLength
          /\ (ok /\ Len(r.val.s) = VinLength) =>
               /\ d.vin = r.val
               /\ d.vehicle_make = decode_vin(r.val.s).make
               /\ d.vehicle_year = decode_vin(r.val.s).model_year
               /\ d.vehicle_country = decode_vin(r.val.s).country
          /\ (ok /\ Len(r.val.s) # VinLength) => d.vin = r.val /\ VinFieldsNull(d)
          /\ (r.done /\ r.err) => IsNone(d.vin) /\ VinFieldsNull(d)

C25_Witness ==
  /\ pc[1] = "send"
  /\ data[1].status = "OK"
  /\ results[1]["VIN"].done
  /\ data[1].vin = Str(VinShort)
  /\ VinFieldsNull(data[1])

\* C26: a step in which the handler reads an inbound message changes
\* nothing but the count of messages read: the publisher's position, the
\* cycle in progress, what was sent, the queries queued and running, and the
\* adapter connection stay as they were.
C26_InboundHasNoEffect ==
  [][(\E c \in Clients : inbox'[c] # inbox[c]) =>
       UNCHANGED <<connVars, handler, transport, pc, data, results, sleepFor, workq,
                   running, wire, lastSent, checked, dtcQueries>>]_vars

C26_Witness ==
  /\ inbox[1] = MaxInbound
  /\ pc[1] = "sleep"
  /\ lastSent[1] = "OK"
  /\ handler[1] = "serving"

\* C27: whatever the status query returned, the cycle does not fail: the
\* snapshot has status OK, with mil_on and dtc_count taken from a well-formed
\* value and false and 0 for any other.
C27_StatusNeverFailsCycle ==
  \A c \in Clients :
    (pc[c] = "send" /\ checked[c] = "ready" /\ results[c]["STATUS"].done
       /\ dtcQueries[c] = 0) =>
      /\ data[c].status = "OK"
      /\ data[c].mil_on = StatusFields(results[c]["STATUS"].val).mil_on
      /\ data[c].dtc_count = StatusFields(results[c]["STATUS"].val).dtc_count

\* C28: in an OK snapshot boost_pressure is manifold_pressure minus
\* baro_pressure of that snapshot, rounded to 2 decimals, when both are
\* non-null, and null when either is null.
C28_BoostIsDifference ==
  \A c \in Clients :
    (pc[c] = "send" /\ data[c].status = "OK") =>
      LET d == data[c]
      IN  IF ~IsNone(d.manifold_pressure) /\ ~IsNone(d.baro_pressure)
          THEN d.boost_pressure = Num(Round2(d.manifold_pressure.n - d.baro_pressure.n))
          ELSE IsNone(d.boost_pressure)

\* the same with "non-null" read as "a number": holds in every run
BoostOfNumbers ==
  \A c \in Clients :
    (pc[c] = "send" /\ data[c].status = "OK") =>
      LET d == data[c]
      IN  IF d.manifold_pressure.kind = "num" /\ d.baro_pressure.kind = "num"
          THEN d.boost_pressure = Num(Round2(d.manifold_pressure.n - d.baro_pressure.n))
          ELSE IsNone(d.boost_pressure)

\* C29: when the speed query succeeded on the adapter's answer to SPEED
\* (100 km/h), the snapshot's speed is 62.14; speed is null when the query
\* failed; and speed_unit is "mph" in every snapshot about to be sent.
C29_SpeedInMph ==
  \A c \in Clients :
    pc[c] = "send" =>
      LET r == results[c]["SPEED"]
      IN  /\ data[c].speed_unit = "mph"
          /\ (data[c].status = "OK" /\ r.done /\ ~r.err /\ r.src[2] = "SPEED") =>
               data[c].speed = Num(62140)
          /\ (r.done /\ r.err) => IsNone(data[c].speed)

C29_Witness ==
  /\ pc[1] = "send"
  /\ data[1].status = "OK"
  /\ results[1]["SPEED"].src = <<1, "SPEED">>
  /\ data[1].speed = Num(62140)
  /\ data[1].speed_unit = "mph"

\* C30: in every snapshot about to be sent, each <output_key>_unit field
\* holds the canonical unit the catalog declares for it.
C30_CanonicalUnits ==
  \A c \in Clients :
    pc[c] = "send" => \A k \in UnitKeys : data[c][k] = DefaultData[k]

\* C31: a publisher that caught an unexpected exception sends the error
\* payload if the transport is open, and nothing if it is closed; it then
\* has ended without the handler being affected, and sends nothing more.
C31_ErrorPayloadThenExit ==
  [][\A c \in Clients :
       /\ (pc[c] = "error" /\ pc'[c] # "error") =>
            /\ pc'[c] \in {"done", "cancelled"}
            /\ pc'[c] = "done" =>
                 /\ handler'[c] = handler[c]
                 /\ transport'[c] = transport[c]
                 /\ lastSent'[c] = IF transport[c] = "open" THEN "error_payload"
                                   ELSE lastSent[c]
       /\ (pc[c] = "done" /\ lastSent[c] = "error_payload") =>
            /\ pc'[c] = "done"
            /\ lastSent'[c] = "error_payload"
            /\ Outstanding(c)' \subseteq Outstanding(c)]_vars

C31_Witness ==
  /\ pc[1] = "done"
  /\ lastSent[1] = "error_payload"
  /\ checked[1] = "raise"
  /\ handler[1] = "serving"
  /\ transport[1] = "open"

\* C32: a snapshot about to be sent holds, under each output key, either
\* null or the value of this cycle's own query, and null where that query
\* failed or did not run, whatever the client was sent in earlier cycles;
\* and each cycle starts from no results.
C32_SnapshotBuiltFresh ==
  [][\A c \in Clients :
       /\ pc[c] = "send" =>
            \A n \in DOMAIN output_key_map :
              LET v == data[c][output_key_map[n]]
                  r == results[c][n]
              IN  /\ v \in {NoneV, r.val}
                  /\ (~r.done \/ r.err) => IsNone(v)
       /\ (pc[c] \in {"start", "sleep"} /\ pc'[c] \notin {"start", "sleep", "cancelled"}) =>
            results'[c] = NoResults]_vars

C32_Witness ==
  /\ "speed" \in sentBefore[1].keys
  /\ pc[1] = "send"
  /\ data[1].status = "OK"
  /\ "SPEED" \in Failed(1)
  /\ IsNone(data[1].speed)

\* C33: a connect call has slept retry_delay once before each attempt but
\* the first and at no other point: a call that returned False made
\* max_retries attempts and slept max_retries - 1 times, and no sleep
\* follows the attempt a call returned from.
C33_SleepBetweenAttempts ==
  call.op = "connect" =>
    /\ call.sleeps = call.attempt - 1
    /\ call.attempt <= call.max_retries
    /\ call.result = "false" => call.sleeps = call.max_retries - 1
    /\ call.pc = "retry_wait" => ~call.returning /\ call.attempt < call.max_retries

C33_Witness ==
  /\ call.op = "connect"
  /\ call.result = "false"
  /\ call.max_retries = MaxRetriesArg
  /\ call.sleeps = MaxRetriesArg - 1
  /\ Cardinality(call.opened) = MaxRetriesArg

\* the place of a character in a string of distinct characters, 0 if absent
PlaceIn(ch, alphabet) ==
  IF \E i \in 1..Len(alphabet) : SubSeq(alphabet, i, i) = ch
  THEN CHOOSE i \in 1..Len(alphabet) : SubSeq(alphabet, i, i) = ch
  ELSE 0

\* the model year the year code at position 10 stands for: the 2010s cycle
\* for A to R, 1995 to 2000 for S to Y, 2001 to 2009 for the digits
YearOfCode(ch) ==
  IF PlaceIn(ch, "ABCDEFGHJKLMNPR") > 0 THEN Num(1000 * (2009 + PlaceIn(ch, "ABCDEFGHJKLMNPR")))
  ELSE IF PlaceIn(ch, "STVWXY") > 0 THEN Num(1000 * (1994 + PlaceIn(ch, "STVWXY")))
  ELSE IF PlaceIn(ch, "123456789") > 0 THEN Num(1000 * (2000 + PlaceIn(ch, "123456789")))
  ELSE NoneV

\* C34: the vehicle_year of a snapshot whose vin has 17 characters is the
\* year its 10th character stands for: the later cycle for A to R (A 2010,
\* R 2024), 1995 to 2000 for S to Y, 2001 to 2009 for 1 to 9, null otherwise.
C34_YearFromPosition10 ==
  \A c \in Clients :
    (pc[c] = "send" /\ data[c].status = "OK" /\ data[c].vin.kind = "str"
       /\ Len(data[c].vin.s) = VinLength) =>
      data[c].vehicle_year = YearOfCode(SubSeq(data[c].vin.s, 10, 10))

C34_Witness ==
  /\ pc[1] = "send"
  /\ data[1].status = "OK"
  /\ data[1].vin = Str(VinWithYear("R"))
  /\ data[1].vehicle_year = Num(2024000)

\* C35: in main.py's loop, while the adapter stays connected, the speed of
\* a payload about to be sent is the last speed read successfully (0 before
\* any): a failed speed reading does not reset it.
C35_MainSpeedKeepsLast ==
  (main.pc = "send" /\ main.data_status # "OBD_DISCONNECTED") =>
    main.current_speed_mph = main.read_speed

\* C36: when initialize_obd_connection returns True, get_connection() is a
\* handle, not None, and the link behind it is open: no call returns True
\* after its own finally clause closed the link and cleared the global.
C36_SuccessHasConnection ==
  [][(call.op = "connect" /\ call.pc # "idle" /\ call'.pc = "idle" /\ call'.result = "true") =>
       /\ obd_connection' # 0
       /\ links'[obd_connection'] = "open"]_vars

\* C37: under fair scheduling, a client whose handler is serving keeps being
\* sent snapshots for as long as its transport is open and its handler has
\* not ended: from any moment of the session a snapshot is about to be sent
\* later on, or the transport has closed, or the handler has left.
C37_OpenSessionKeepsStreaming ==
  \A c \in Clients :
    (handler[c] = "serving") ~>
      (pc[c] = "send" \/ transport[c] = "closed" \/ handler[c] = "exited")

\* C38: once a handler has cancelled and awaited its publisher, no adapter
\* query made for that client is executing in a pool thread, and none is
\* waiting to start.
C38_NoQueryAfterCancel ==
  \A c \in Clients :
    (handler[c] = "exited" /\ pc[c] = "cancelled") =>
      /\ \A j \in running : j.client # c
      /\ \A i \in 1..Len(workq) : workq[i].client # c

\* the entries of a trouble-code list: its two-element tuples, in order
WellFormedPairs(items) ==
  LET good == SelectSeq(items, LAMBDA x : x.kind = "tuple" /\ Len(x.t) = 2)
  IN  [i \in 1..Len(good) |-> [code |-> good[i].t[1], desc |-> good[i].t[2]]]

\* C39: in a cycle whose status result gave mil_on = true and dtc_count > 0
\* and whose GET_DTC query has returned, the snapshot about to be sent has
\* status OK and the mil_on and dtc_count of the status result; its dtcs are
\* one {code, desc} per two-element tuple of a trouble-code list, in order,
\* and the empty list when the query failed or returned nothing.
C39_DtcsFromTroubleCodes ==
  \A c \in Clients :
    LET r == results[c]["GET_DTC"]
        listed == ~r.err /\ r.val.kind = "list"
        nothing == r.err \/ IsNone(r.val)
    IN  (pc[c] = "send" /\ r.done /\ (listed \/ nothing)) =>
          /\ data[c].status = "OK"
          /\ data[c].mil_on
          /\ data[c].dtc_count > 0
          /\ data[c].mil_on = StatusFields(results[c]["STATUS"].val).mil_on
          /\ data[c].dtc_count = StatusFields(results[c]["STATUS"].val).dtc_count
          /\ data[c].dtcs = IF listed THEN WellFormedPairs(r.val.t) ELSE <<>>

C39_Witness ==
  /\ pc[1] = "send"
  /\ results[1]["GET_DTC"].done
  /\ ~results[1]["GET_DTC"].err
  /\ Len(results[1]["GET_DTC"].val.t) = 3
  /\ Len(data[1].dtcs) = 2
  /\ data[1].dtcs[2].code = Str("P0300")

\* the other case of C39: the trouble-code query failed
C39_FailedQueryReached ==
  /\ pc[1] = "send"
  /\ results[1]["GET_DTC"].done
  /\ results[1]["GET_DTC"].err
  /\ data[1].dtcs = <<>>
  /\ data[1].status = "OK"

C40_SleepReached ==
  /\ pc[1] = "sleep"
  /\ obd_connection = 0
  /\ links[1] = "closed"
  /\ lastSent[1] = "OK"
  /\ sleepFor[1] = PollingInterval

====
